---- MODULE Spec2Model ----
(***************************************************************************)
(* The island hydration pipeline of                                        *)
(* packages/astro/src/runtime/server/hydration.ts: extractDirectives,      *)
(* which splits a component's raw props into directives and ordinary       *)
(* props, and generateHydrateScript, which builds the <astro-island>       *)
(* descriptor.                                                             *)
(*                                                                         *)
(* A JavaScript string is modelled as the non-empty sequence of its        *)
(* ':'-separated segments ("client:load" is <<"client", "load">>, "" is    *)
(* <<"">>), so that startsWith('client:'), split(':') and template         *)
(* concatenation are computed as the code computes them.                   *)
(***************************************************************************)
EXTENDS Naturals, Sequences, FiniteSets, TLC

\* ------------------------------------------------------------------------
\* JavaScript values and strings

Undefined == [t |-> "undefined"]
Null == [t |-> "null"]
Str(s) == [t |-> "string", s |-> s]
Num(n) == [t |-> "number", n |-> n]
\* An object: its own properties, in property order.
Obj(entries) == [t |-> "object", entries |-> entries]

typeof(v) == IF v.t = "null" THEN "object" ELSE v.t

\* a + b on strings: the last segment of a and the first of b become one.
Concat(a, b) ==
    SubSeq(a, 1, Len(a) - 1) \o <<a[Len(a)] \o b[1]>> \o SubSeq(b, 2, Len(b))

\* s.startsWith(p) for a prefix p that ends with ':' (its last segment is "").
startsWith(s, p) ==
    /\ Len(s) >= Len(p)
    /\ \A j \in 1..(Len(p) - 1) : s[j] = p[j]

\* s.split(':'): one string per segment.
split(s) == [j \in 1..Len(s) |-> <<s[j]>>]

\* A property key: a string, or a symbol (named by its description).
K(s) == [sym |-> FALSE, name |-> s]
Sym(s) == [sym |-> TRUE, name |-> s]

\* Object.entries(o): the string-keyed properties, in order.
ObjectEntries(o) == SelectSeq(o, LAMBDA e : ~e.key.sym)
\* Object.keys(o)
ObjectKeys(o) == [j \in 1..Len(ObjectEntries(o)) |-> ObjectEntries(o)[j].key]
\* Object.getOwnPropertySymbols(o)
GetOwnPropertySymbols(o) ==
    LET es == SelectSeq(o, LAMBDA e : e.key.sym)
    IN [j \in 1..Len(es) |-> es[j].key]

HasKey(o, key) == \E j \in 1..Len(o) : o[j].key = key
\* o[key]
Get(o, key) ==
    IF HasKey(o, key)
    THEN o[CHOOSE j \in 1..Len(o) : o[j].key = key].value
    ELSE Undefined
\* o[key] = value: an existing property keeps its place, a new one goes last.
Put(o, key, value) ==
    IF HasKey(o, key)
    THEN [j \in 1..Len(o) |->
            IF o[j].key = key THEN [key |-> key, value |-> value] ELSE o[j]]
    ELSE Append(o, [key |-> key, value |-> value])

\* util.js
isNullish(v) == v.t \in {"undefined", "null"}
isObject(v) == typeof(v) = "object" /\ v # Null

\* ------------------------------------------------------------------------
\* extractDirectives

\* The list with its second name forgotten.
transitionDirectivesScopeOnly == << <<"data-astro-transition-scope">> >>

transitionDirectivesToCopyOnIsland ==
    << <<"data-astro-transition-scope">>, <<"data-astro-transition-persist">> >>

\* Array.prototype.includes on an array of strings
includes(arr, s) == \E j \in 1..Len(arr) : arr[j] = s

NoError == [kind |-> "none", key |-> <<"">>, methods |-> <<"">>]
InvalidDirectiveValue ==
    [kind |-> "InvalidDirectiveValue", key |-> <<"">>, methods |-> <<"">>]
MissingMediaQueryDirective ==
    [kind |-> "MissingMediaQueryDirective", key |-> <<"">>, methods |-> <<"">>]

\* Array.from(clientDirectives.keys()).map((d) => `client:${d}`).join(', ')
RECURSIVE join(_, _)
join(arr, sep) ==
    IF Len(arr) = 0 THEN <<"">>
    ELSE IF Len(arr) = 1 THEN arr[1]
    ELSE Concat(Concat(arr[1], sep), join(Tail(arr), sep))

hydrationMethods(clientDirectives) ==
    join([j \in 1..Len(clientDirectives) |->
            Concat(<<"client", "">>, clientDirectives[j])], <<", ">>)

UnknownDirective(key, clientDirectives) ==
    [kind |-> "UnknownDirective", key |-> key,
     methods |-> hydrationMethods(clientDirectives)]

\* clientDirectives.has(name): the registry is a Map, held as its keys in
\* insertion order.
MapHas(clientDirectives, name) ==
    \E j \in 1..Len(clientDirectives) : clientDirectives[j] = name

InitialHydration ==
    [directive |-> Str(<<"">>), value |-> Str(<<"">>),
     componentUrl |-> Str(<<"">>), componentExport |-> [value |-> Str(<<"">>)]]

\* key.split(':')[1]
DirectiveName(key) == split(key)[2]

\* The default case without the client:media test.
DefaultCaseNoMediaCheck(hydration, key, value, clientDirectives) ==
    LET h == [hydration EXCEPT !.directive = Str(DirectiveName(key)),
                               !.value = value]
    IN  IF ~MapHas(clientDirectives, h.directive.s)
        THEN [hydration |-> h, thrown |-> UnknownDirective(key, clientDirectives)]
        ELSE [hydration |-> h, thrown |-> NoError]

\* The default case without the registry test.
DefaultCaseNoRegistryCheck(hydration, key, value, clientDirectives) ==
    LET h == [hydration EXCEPT !.directive = Str(DirectiveName(key)),
                               !.value = value]
    IN  IF h.directive = Str(<<"media">>) /\ typeof(h.value) # "string"
        THEN [hydration |-> h, thrown |-> MissingMediaQueryDirective]
        ELSE [hydration |-> h, thrown |-> NoError]

\* The default case of the switch: the key names a hydration directive.
DefaultCase(hydration, key, value, clientDirectives) ==
    LET h == [hydration EXCEPT !.directive = Str(DirectiveName(key)),
                               !.value = value]
    IN  IF ~MapHas(clientDirectives, h.directive.s)
        THEN [hydration |-> h, thrown |-> UnknownDirective(key, clientDirectives)]
        ELSE IF h.directive = Str(<<"media">>) /\ typeof(h.value) # "string"
        THEN [hydration |-> h, thrown |-> MissingMediaQueryDirective]
        ELSE [hydration |-> h, thrown |-> NoError]

\* The shape check without the loop over the object's keys.
ValidParamsNoKeyCheck(v) ==
    /\ isObject(v)
    /\ typeof(Get(v.entries, K(<<"directive">>))) = "string"

\* The shape check of a non-nullish client:params value.
ValidParams(v) ==
    /\ isObject(v)
    /\ \A j \in 1..Len(ObjectKeys(v.entries)) :
          ObjectKeys(v.entries)[j] \in {K(<<"directive">>), K(<<"value">>)}
    /\ typeof(Get(v.entries, K(<<"directive">>))) = "string"

\* case 'client:params' that rewrites the key and keeps the whole object as
\* the value.
ParamsCaseKeepsValue(hydration, value, clientDirectives) ==
    IF isNullish(value)
    THEN [hydration |-> hydration, thrown |-> NoError]
    ELSE IF ~ValidParams(value)
    THEN [hydration |-> hydration, thrown |-> InvalidDirectiveValue]
    ELSE DefaultCase(hydration,
                     Concat(<<"client", "">>, Get(value.entries, K(<<"directive">>)).s),
                     value, clientDirectives)

\* case 'client:params' that skips the transform for undefined only.
ParamsCaseUndefinedOnly(hydration, value, clientDirectives) ==
    IF value = Undefined
    THEN [hydration |-> hydration, thrown |-> NoError]
    ELSE IF ~ValidParams(value)
    THEN [hydration |-> hydration, thrown |-> InvalidDirectiveValue]
    ELSE DefaultCase(hydration,
                     Concat(<<"client", "">>, Get(value.entries, K(<<"directive">>)).s),
                     Get(value.entries, K(<<"value">>)),
                     clientDirectives)

\* case 'client:params': a nullish value breaks out of the switch; a valid one
\* rewrites key and value and falls through to the default case.
ParamsCase(hydration, value, clientDirectives) ==
    IF isNullish(value)
    THEN [hydration |-> hydration, thrown |-> NoError]
    ELSE IF ~ValidParams(value)
    THEN [hydration |-> hydration, thrown |-> InvalidDirectiveValue]
    ELSE DefaultCase(hydration,
                     Concat(<<"client", "">>, Get(value.entries, K(<<"directive">>)).s),
                     Get(value.entries, K(<<"value">>)),
                     clientDirectives)

\* switch (key) of a key that starts with 'client:'
Switch(hydration, key, value, clientDirectives) ==
    IF key = <<"client", "component-path">>
    THEN [hydration |-> [hydration EXCEPT !.componentUrl = value],
          thrown |-> NoError]
    ELSE IF key = <<"client", "component-export">>
    THEN [hydration |-> [hydration EXCEPT !.componentExport.value = value],
          thrown |-> NoError]
    ELSE IF key = <<"client", "component-hydration">>
    THEN [hydration |-> hydration, thrown |-> NoError]
    ELSE IF key = <<"client", "display-name">>
    THEN [hydration |-> hydration, thrown |-> NoError]
    ELSE IF key = <<"client", "params">>
    THEN ParamsCase(hydration, value, clientDirectives)
    ELSE DefaultCase(hydration, key, value, clientDirectives)

\* The server: test that assigns isPage at every server: key.
ServerKeyAssigns(isPage, key) ==
    IF startsWith(key, <<"server", "">>)
    THEN key = <<"server", "root">>
    ELSE isPage

\* if (key.startsWith('server:')) { if (key === 'server:root') isPage = true }
ServerKey(isPage, key) ==
    IF startsWith(key, <<"server", "">>) /\ key = <<"server", "root">>
    THEN TRUE
    ELSE isPage

\* The else branch without the transition-key test.
CopyPropNoFilter(ex, key, value) ==
    [ex EXCEPT
        !.props = Put(ex.props, K(key), value),
        !.propsWithoutTransitionAttributes =
            Put(ex.propsWithoutTransitionAttributes, K(key), value)]

\* The else branch: an ordinary prop.
CopyProp(ex, key, value) ==
    [ex EXCEPT
        !.props = Put(ex.props, K(key), value),
        !.propsWithoutTransitionAttributes =
            IF ~includes(transitionDirectivesToCopyOnIsland, key)
            THEN Put(ex.propsWithoutTransitionAttributes, K(key), value)
            ELSE ex.propsWithoutTransitionAttributes]

\* The loop body with the copy outside the else branch.
LoopBodyCopiesAll(ex, key, value, clientDirectives) ==
    LET e1 == [ex EXCEPT !.isPage = ServerKey(ex.isPage, key)]
    IN  IF startsWith(key, <<"client", "">>)
        THEN LET h0 == IF e1.hydration = Null THEN InitialHydration
                       ELSE e1.hydration
                 r == Switch(h0, key, value, clientDirectives)
             IN  [extracted |-> CopyProp([e1 EXCEPT !.hydration = r.hydration],
                                         key, value),
                  thrown |-> r.thrown]
        ELSE [extracted |-> CopyProp(e1, key, value), thrown |-> NoError]

\* The loop body that creates the record anew at every client: key.
LoopBodyAlwaysInit(ex, key, value, clientDirectives) ==
    LET e1 == [ex EXCEPT !.isPage = ServerKey(ex.isPage, key)]
    IN  IF startsWith(key, <<"client", "">>)
        THEN LET r == Switch(InitialHydration, key, value, clientDirectives)
             IN  [extracted |-> [e1 EXCEPT !.hydration = r.hydration],
                  thrown |-> r.thrown]
        ELSE [extracted |-> CopyProp(e1, key, value), thrown |-> NoError]

\* One iteration of the loop over Object.entries(inputProps).
LoopBody(ex, key, value, clientDirectives) ==
    LET e1 == [ex EXCEPT !.isPage = ServerKey(ex.isPage, key)]
    IN  IF startsWith(key, <<"client", "">>)
        THEN LET h0 == IF e1.hydration = Null THEN InitialHydration
                       ELSE e1.hydration
                 r == Switch(h0, key, value, clientDirectives)
             IN  [extracted |-> [e1 EXCEPT !.hydration = r.hydration],
                  thrown |-> r.thrown]
        ELSE [extracted |-> CopyProp(e1, key, value), thrown |-> NoError]

\* The symbol loop that fills props only.
CopySymbolPropsOnly(ex, sym, inputProps) ==
    [ex EXCEPT !.props = Put(ex.props, sym, Get(inputProps, sym))]

\* One iteration of the loop over Object.getOwnPropertySymbols(inputProps).
CopySymbol(ex, sym, inputProps) ==
    [ex EXCEPT
        !.props = Put(ex.props, sym, Get(inputProps, sym)),
        !.propsWithoutTransitionAttributes =
            Put(ex.propsWithoutTransitionAttributes, sym, Get(inputProps, sym))]

InitialExtracted ==
    [isPage |-> FALSE, hydration |-> Null, props |-> <<>>,
     propsWithoutTransitionAttributes |-> <<>>]

\* The first loop from entry j on: stops at the first throw.
RECURSIVE EntriesLoop(_, _, _, _)
EntriesLoop(ex, entries, j, clientDirectives) ==
    IF j > Len(entries) THEN [extracted |-> ex, thrown |-> NoError]
    ELSE LET r == LoopBody(ex, entries[j].key.name, entries[j].value,
                           clientDirectives)
         IN  IF r.thrown # NoError THEN r
             ELSE EntriesLoop(r.extracted, entries, j + 1, clientDirectives)

RECURSIVE SymbolsLoop(_, _, _, _)
SymbolsLoop(ex, syms, j, inputProps) ==
    IF j > Len(syms) THEN ex
    ELSE SymbolsLoop(CopySymbol(ex, syms[j], inputProps), syms, j + 1, inputProps)

\* extractDirectives(inputProps, clientDirectives) as a function of its
\* arguments: what it returns, or what it throws.
extractDirectives(props, directives) ==
    LET r == EntriesLoop(InitialExtracted, ObjectEntries(props), 1, directives)
    IN  IF r.thrown # NoError
        THEN [returned |-> FALSE, thrown |-> r.thrown]
        ELSE [returned |-> TRUE,
              value |-> SymbolsLoop(r.extracted, GetOwnPropertySymbols(props),
                                    1, props)]

\* ------------------------------------------------------------------------
\* generateHydrateScript

\* if (v): '' and undefined, null are falsy; the other values used are truthy.
Truthy(v) == ~(v \in {Undefined, Null, Str(<<"">>)})

\* escape.js: escapeHTML replaces & < > " ' by their entities; ':' stays.
EscapeSegment(seg) ==
    CASE seg = "<b>" -> "&lt;b&gt;"
      [] seg = "a&b" -> "a&amp;b"
      [] OTHER -> seg

\* A JSON text (from serializeProps or JSON.stringify) is kept as the
\* structure it encodes; its escaped form is kept as such.
escapeHTML(v) ==
    IF "s" \in DOMAIN v
    THEN Str([j \in 1..Len(v.s) |-> EscapeSegment(v.s[j])])
    ELSE [t |-> "string", escaped |-> v]

\* serialize.js
serializeProps(props, meta) == [t |-> "string", json |-> props]

\* JSON.stringify({name: ..., value: ...})
JSONStringify(o) == [t |-> "string", json |-> o]

\* decodeURI, on the URLs used here: %20 is a space.
DecodeSegment(seg) ==
    CASE seg = "/src/My%20Island.jsx" -> "/src/My Island.jsx"
      [] OTHER -> seg

decodeURI(v) == Str([j \in 1..Len(v.s) |-> DecodeSegment(v.s[j])])

NoMatchingImport ==
    [kind |-> "NoMatchingImport", key |-> <<"">>, methods |-> <<"">>]
\* The rejection of a result.resolve() promise.
ResolveRejected ==
    [kind |-> "ResolveRejected", key |-> <<"">>, methods |-> <<"">>]

BeforeHydrationPath == Str(<<"astro", "scripts/before-hydration.js">>)

\* const island = { children: '', props: { uid: astroId } } and the copy of
\* attrs.
RECURSIVE AttachAttrs(_, _, _)
AttachAttrs(props, attrs, j) ==
    IF j > Len(attrs) THEN props
    ELSE AttachAttrs(Put(props, attrs[j].key, escapeHTML(attrs[j].value)),
                     attrs, j + 1)

NewIsland(options) ==
    LET uid == <<[key |-> K(<<"uid">>), value |-> options.astroId]>>
    IN  [children |-> Str(<<"">>),
         props |-> IF options.attrs # Undefined
                   THEN AttachAttrs(uid, ObjectEntries(options.attrs.entries), 1)
                   ELSE uid]

SetAttr(isl, name, value) ==
    [isl EXCEPT !.props = Put(isl.props, K(<<name>>), value)]

\* client set before ssr.
ClientAndSsr(isl, meta) ==
    SetAttr(SetAttr(isl, "client", meta.hydrate), "ssr", Str(<<"">>))

\* island.props['ssr'] = ''; island.props['client'] = hydrate
SsrAndClient(isl, meta) ==
    SetAttr(SetAttr(isl, "ssr", Str(<<"">>)), "client", meta.hydrate)

\* The copy of the transition attributes that escapes the value.
RECURSIVE CopyTransitionsEscaped(_, _, _)
CopyTransitionsEscaped(isl, props, j) ==
    IF j > Len(transitionDirectivesToCopyOnIsland) THEN isl
    ELSE LET name == K(transitionDirectivesToCopyOnIsland[j])
             next == IF Truthy(Get(props, name))
                     THEN [isl EXCEPT !.props =
                              Put(isl.props, name, escapeHTML(Get(props, name)))]
                     ELSE isl
         IN  CopyTransitionsEscaped(next, props, j + 1)

\* transitionDirectivesToCopyOnIsland.forEach(...)
RECURSIVE CopyTransitions(_, _, _)
CopyTransitions(isl, props, j) ==
    IF j > Len(transitionDirectivesToCopyOnIsland) THEN isl
    ELSE LET name == K(transitionDirectivesToCopyOnIsland[j])
             next == IF Truthy(Get(props, name))
                     THEN [isl EXCEPT !.props = Put(isl.props, name, Get(props, name))]
                     ELSE isl
         IN  CopyTransitions(next, props, j + 1)

\* The end of the function with the props attribute set outside the test of
\* renderer.clientEntrypoint.
FinishSetsProps(isl, beforeHydrationUrl, options, meta) ==
    LET a == IF beforeHydrationUrl # Str(<<"">>)
             THEN SetAttr(isl, "before-hydration-url", beforeHydrationUrl)
             ELSE isl
        b == SetAttr(a, "opts",
                     escapeHTML(JSONStringify(
                         [name |-> meta.displayName,
                          value |-> IF Truthy(meta.hydrateArgs)
                                    THEN meta.hydrateArgs ELSE Str(<<"">>)])))
        c == SetAttr(b, "props", escapeHTML(serializeProps(options.props, meta)))
    IN  CopyTransitions(c, options.props, 1)

\* The end of the function that sets before-hydration-url whatever the URL.
FinishSetsEmptyUrl(isl, beforeHydrationUrl, options, meta) ==
    LET a == SetAttr(isl, "before-hydration-url", beforeHydrationUrl)
        b == SetAttr(a, "opts",
                     escapeHTML(JSONStringify(
                         [name |-> meta.displayName,
                          value |-> IF Truthy(meta.hydrateArgs)
                                    THEN meta.hydrateArgs ELSE Str(<<"">>)])))
    IN  CopyTransitions(b, options.props, 1)

\* From the resolved before-hydration URL to the return.
Finish(isl, beforeHydrationUrl, options, meta) ==
    LET a == IF beforeHydrationUrl # Str(<<"">>)
             THEN SetAttr(isl, "before-hydration-url", beforeHydrationUrl)
             ELSE isl
        b == SetAttr(a, "opts",
                     escapeHTML(JSONStringify(
                         [name |-> meta.displayName,
                          value |-> IF Truthy(meta.hydrateArgs)
                                    THEN meta.hydrateArgs ELSE Str(<<"">>)])))
    IN  CopyTransitions(b, options.props, 1)

\* ------------------------------------------------------------------------
\* The calls that are explored

\* Most own properties of an input bag.
MaxProps == 2

PlainValues == {Str(<<"q">>), Num(7)}
OneValue == {Str(<<"q">>)}

Prop(key, values) == {[key |-> key, value |-> v] : v \in values}

\* client:params values: nullish, malformed, and well-formed rewrites.
ParamsValues ==
    { Undefined, Null, Str(<<"q">>), Obj(<<>>),
      Obj(<<[key |-> K(<<"extra">>), value |-> Str(<<"x">>)]>>),
      Obj(<<[key |-> K(<<"directive">>), value |-> Num(7)]>>),
      Obj(<<[key |-> K(<<"directive">>), value |-> Str(<<"idle">>)],
            [key |-> K(<<"extra">>), value |-> Str(<<"x">>)]>>) }
    \cup { Obj(<<[key |-> K(<<"directive">>), value |-> Str(d)]>>) :
             d \in { <<"idle">>, <<"media">>, <<"weird">>, <<"params">>,
                     <<"load", "x">> } }
    \cup { Obj(<<[key |-> K(<<"directive">>), value |-> Str(d)],
                 [key |-> K(<<"value">>), value |-> Str(<<"q">>)]>>) :
             d \in { <<"idle">>, <<"media">>, <<"component-path">> } }

PropEntries ==
    Prop(K(<<"title">>), PlainValues)
    \cup Prop(K(<<"data-astro-transition-scope">>), PlainValues)
    \cup Prop(K(<<"data-astro-transition-persist">>), OneValue)
    \cup Prop(K(<<"server", "root">>), OneValue)
    \cup Prop(K(<<"server", "defer">>), OneValue)
    \cup Prop(K(<<"client", "component-path">>), PlainValues)
    \cup Prop(K(<<"client", "component-export">>), OneValue)
    \cup Prop(K(<<"client", "component-hydration">>), OneValue)
    \cup Prop(K(<<"client", "display-name">>), OneValue)
    \cup Prop(K(<<"client", "load">>), PlainValues)
    \cup Prop(K(<<"client", "media">>), PlainValues)
    \cup Prop(K(<<"client", "weird">>), OneValue)
    \cup Prop(K(<<"client", "load", "x">>), OneValue)
    \cup Prop(K(<<"client", "params">>), ParamsValues)
    \cup Prop(Sym(<<"s">>), PlainValues)

\* An object has each key once.
DistinctKeys(o) == \A a, b \in 1..Len(o) : o[a].key = o[b].key => a = b

InputBags ==
    {o \in UNION {[1..n -> PropEntries] : n \in 0..MaxProps} : DistinctKeys(o)}

\* The known client directives, in the registry's insertion order.
Registries ==
    { << <<"load">>, <<"idle">> >>, << <<"idle">>, <<"media">>, <<"load">> >> }

\* Most caller-supplied extra attributes of a build.
MaxAttrs == 2

AttrEntries ==
    Prop(K(<<"class">>), {Str(<<"<b>">>)})
    \cup Prop(K(<<"uid">>), OneValue)
    \cup Prop(K(<<"props">>), OneValue)
    \cup Prop(K(<<"renderer-url">>), OneValue)
    \cup Prop(K(<<"component-url">>), OneValue)
    \cup Prop(K(<<"client">>), OneValue)
    \cup Prop(K(<<"before-hydration-url">>), OneValue)
    \cup Prop(K(<<"data-astro-transition-scope">>), OneValue)

\* attrs: Record<string, string> | undefined
AttrBags ==
    {Undefined} \cup
    {Obj(o) : o \in {q \in UNION {[1..n -> AttrEntries] : n \in 0..MaxAttrs} :
                        DistinctKeys(q)}}

\* The props of the component being hydrated.
HydratedProps ==
    { <<>>,
      <<[key |-> K(<<"title">>), value |-> Str(<<"a&b">>)]>>,
      <<[key |-> K(<<"data-astro-transition-scope">>), value |-> Str(<<"<b>">>)]>>,
      <<[key |-> K(<<"data-astro-transition-scope">>), value |-> Str(<<"">>)]>>,
      <<[key |-> K(<<"data-astro-transition-persist">>), value |-> Str(<<"q">>)],
        [key |-> K(<<"data-astro-transition-scope">>), value |-> Str(<<"q">>)]>> }

ScriptOptions ==
    [renderer : [clientEntrypoint : {Undefined, Str(<<"@astrojs/react/client.js">>)}],
     astroId : {Str(<<"Z1a2b3">>)},
     props : HydratedProps,
     attrs : AttrBags]

Metadatas ==
    [hydrate : {Str(<<"load">>)},
     componentUrl : {Str(<<"/src/My%20Island.jsx">>)},
     componentExport : [value : {Str(<<"">>), Str(<<"default">>)}],
     displayName : {Str(<<"MyIsland">>)},
     hydrateArgs : {Undefined, Str(<<"q">>)}]

\* What result.resolve(path) may resolve to; it may also reject.
ResolvedUrls(path) ==
    IF path = BeforeHydrationPath
    THEN {Str(<<"">>), Str(<<"/_astro/before-hydration.js">>)}
    ELSE {Str(<<"/_astro/chunk.js">>)}

\* ------------------------------------------------------------------------
\* State

VARIABLES
    pc,                 \* where the running call is
    inputProps,         \* extractDirectives' first argument
    clientDirectives,   \* extractDirectives' second argument
    i,                  \* the running loop's position
    extracted,          \* extractDirectives' local
    thrown,             \* the error the call threw, NoError if none
    scriptOptions,      \* generateHydrateScript's first argument
    metadata,           \* generateHydrateScript's second argument
    island,             \* generateHydrateScript's local, Null before it is made
    resolveLog          \* the result.resolve() calls and how they settled

extractVars == <<inputProps, clientDirectives, i, extracted>>
hydrateVars == <<scriptOptions, metadata, island, resolveLog>>
vars == <<pc, thrown, extractVars, hydrateVars>>

\* A call of extractDirectives.
InitExtract ==
    /\ pc = "entries"
    /\ inputProps \in InputBags
    /\ clientDirectives \in Registries
    /\ i = 1
    /\ extracted = InitialExtracted
    /\ thrown = NoError
    /\ scriptOptions = Null
    /\ metadata = Null
    /\ island = Null
    /\ resolveLog = <<>>

\* A call of generateHydrateScript.
InitHydrate ==
    /\ pc = "build"
    /\ scriptOptions \in ScriptOptions
    /\ metadata \in Metadatas
    /\ island = Null
    /\ resolveLog = <<>>
    /\ thrown = NoError
    /\ inputProps = <<>>
    /\ clientDirectives = <<>>
    /\ i = 1
    /\ extracted = InitialExtracted

Init == InitExtract \/ InitHydrate

\* One pass of the body of for (let [key, value] of Object.entries(inputProps)).
ExtractEntry ==
    /\ pc = "entries"
    /\ i <= Len(ObjectEntries(inputProps))
    /\ LET e == ObjectEntries(inputProps)[i]
           r == LoopBody(extracted, e.key.name, e.value, clientDirectives)
       IN  /\ extracted' = r.extracted
           /\ thrown' = r.thrown
           /\ pc' = IF r.thrown # NoError THEN "threw" ELSE "entries"
           /\ i' = IF r.thrown # NoError THEN i ELSE i + 1
    /\ UNCHANGED <<inputProps, clientDirectives, hydrateVars>>

\* The first loop is over; the loop over the symbol keys starts.
ExtractEntriesDone ==
    /\ pc = "entries"
    /\ i > Len(ObjectEntries(inputProps))
    /\ pc' = "symbols"
    /\ i' = 1
    /\ UNCHANGED <<inputProps, clientDirectives, extracted, thrown, hydrateVars>>

\* One pass of for (const sym of Object.getOwnPropertySymbols(inputProps)).
ExtractSymbol ==
    /\ pc = "symbols"
    /\ i <= Len(GetOwnPropertySymbols(inputProps))
    /\ extracted' = CopySymbol(extracted, GetOwnPropertySymbols(inputProps)[i],
                               inputProps)
    /\ i' = i + 1
    /\ UNCHANGED <<pc, inputProps, clientDirectives, thrown, hydrateVars>>

\* return extracted
ExtractReturn ==
    /\ pc = "symbols"
    /\ i > Len(GetOwnPropertySymbols(inputProps))
    /\ pc' = "returned"
    /\ UNCHANGED <<thrown, extractVars, hydrateVars>>

Call(path) == [op |-> "call", arg |-> path]
Fulfilled(url) == [op |-> "fulfilled", arg |-> url]
Rejected(path) == [op |-> "rejected", arg |-> path]

\* The path of the resolve() call that is awaited.
Awaited == resolveLog[Len(resolveLog)].arg

\* The entry without the test of componentExport.value.
HydrateBeginNoExportCheck ==
    /\ pc = "build"
    /\ island' = NewIsland(scriptOptions)
    /\ resolveLog' = Append(resolveLog, Call(decodeURI(metadata.componentUrl)))
    /\ pc' = "awaitComponentUrl"
    /\ UNCHANGED <<thrown, scriptOptions, metadata, extractVars>>

\* The entry that asks for the component URL and the before-hydration URL at
\* once, without awaiting the first.
HydrateBeginResolvesAtOnce ==
    /\ pc = "build"
    /\ IF ~Truthy(metadata.componentExport.value)
       THEN /\ pc' = "rejected"
            /\ thrown' = NoMatchingImport
            /\ UNCHANGED <<island, resolveLog>>
       ELSE /\ island' = NewIsland(scriptOptions)
            /\ resolveLog' = resolveLog \o
                   <<Call(BeforeHydrationPath), Call(decodeURI(metadata.componentUrl))>>
            /\ pc' = "awaitComponentUrl"
            /\ UNCHANGED thrown
    /\ UNCHANGED <<scriptOptions, metadata, extractVars>>

\* From the entry to the first await: the export check, the island, the
\* attrs, and the call result.resolve(decodeURI(componentUrl)).
HydrateBegin ==
    /\ pc = "build"
    /\ IF ~Truthy(metadata.componentExport.value)
       THEN /\ pc' = "rejected"
            /\ thrown' = NoMatchingImport
            /\ UNCHANGED <<island, resolveLog>>
       ELSE /\ island' = NewIsland(scriptOptions)
            /\ resolveLog' = Append(resolveLog, Call(decodeURI(metadata.componentUrl)))
            /\ pc' = "awaitComponentUrl"
            /\ UNCHANGED thrown
    /\ UNCHANGED <<scriptOptions, metadata, extractVars>>

\* The component URL is resolved: component-url is set; with a client entry
\* point component-export is set and the renderer URL is asked for, without
\* one ssr and client are set and the before-hydration URL is asked for.
ComponentUrlResolved ==
    /\ pc = "awaitComponentUrl"
    /\ \E url \in ResolvedUrls(Awaited) :
        LET isl == SetAttr(island, "component-url", url)
        IN  IF Truthy(scriptOptions.renderer.clientEntrypoint)
            THEN /\ island' = SetAttr(isl, "component-export",
                                      metadata.componentExport.value)
                 /\ resolveLog' = resolveLog \o
                        <<Fulfilled(url),
                          Call(decodeURI(scriptOptions.renderer.clientEntrypoint))>>
                 /\ pc' = "awaitRendererUrl"
            ELSE /\ island' = SsrAndClient(isl, metadata)
                 /\ resolveLog' = resolveLog \o
                        <<Fulfilled(url), Call(BeforeHydrationPath)>>
                 /\ pc' = "awaitBeforeHydration"
    /\ UNCHANGED <<thrown, scriptOptions, metadata, extractVars>>

\* The renderer URL is resolved: renderer-url, props, ssr and client are
\* set and the before-hydration URL is asked for.
RendererUrlResolved ==
    /\ pc = "awaitRendererUrl"
    /\ \E url \in ResolvedUrls(Awaited) :
        /\ island' = SsrAndClient(
                        SetAttr(SetAttr(island, "renderer-url", url), "props",
                                escapeHTML(serializeProps(scriptOptions.props,
                                                          metadata))),
                        metadata)
        /\ resolveLog' = resolveLog \o <<Fulfilled(url), Call(BeforeHydrationPath)>>
    /\ pc' = "awaitBeforeHydration"
    /\ UNCHANGED <<thrown, scriptOptions, metadata, extractVars>>

\* The before-hydration URL is resolved: the rest of the function, to its
\* return.
BeforeHydrationResolved ==
    /\ pc = "awaitBeforeHydration"
    /\ \E url \in ResolvedUrls(Awaited) :
        /\ island' = Finish(island, url, scriptOptions, metadata)
        /\ resolveLog' = Append(resolveLog, Fulfilled(url))
    /\ pc' = "built"
    /\ UNCHANGED <<thrown, scriptOptions, metadata, extractVars>>

\* The awaited result.resolve() rejects: the build rejects with it.
ResolveRejects ==
    /\ pc \in {"awaitComponentUrl", "awaitRendererUrl", "awaitBeforeHydration"}
    /\ resolveLog' = Append(resolveLog, Rejected(Awaited))
    /\ thrown' = ResolveRejected
    /\ pc' = "rejected"
    /\ UNCHANGED <<island, scriptOptions, metadata, extractVars>>

Next ==
    \/ ExtractEntry
    \/ ExtractEntriesDone
    \/ ExtractSymbol
    \/ ExtractReturn
    \/ HydrateBegin
    \/ ComponentUrlResolved
    \/ RendererUrlResolved
    \/ BeforeHydrationResolved
    \/ ResolveRejects

Spec == Init /\ [][Next]_vars

\* ------------------------------------------------------------------------
\* Properties of extractDirectives

Entries == ObjectEntries(inputProps)

ClientPrefixed(k) == ~k.sym /\ Len(k.name) >= 2 /\ k.name[1] = "client"
ServerPrefixed(k) == ~k.sym /\ Len(k.name) >= 2 /\ k.name[1] = "server"

TransitionKeys ==
    {K(<<"data-astro-transition-scope">>), K(<<"data-astro-transition-persist">>)}

EntrySet(o) == {o[j] : j \in 1..Len(o)}
KeySet(o) == {o[j].key : j \in 1..Len(o)}

NoClientNoServerKey ==
    \A k \in KeySet(inputProps) : ~ClientPrefixed(k) /\ ~ServerPrefixed(k)

\* What the call that ended gave its caller.
Outcome ==
    IF pc = "returned" THEN [returned |-> TRUE, value |-> extracted]
    ELSE [returned |-> FALSE, thrown |-> thrown]

\* C1 as stated: with no client: and no server: key in the input, the result
\* has no hydration record, isPage false, and props equal to
\* propsWithoutTransitionAttributes.
C1_AsStated ==
    (pc = "returned" /\ NoClientNoServerKey) =>
        /\ extracted.hydration = Null
        /\ extracted.isPage = FALSE
        /\ extracted.props = extracted.propsWithoutTransitionAttributes

\* C1 amended: with no client: and no server: key in the input, the result
\* has no hydration record and isPage false; propsWithoutTransitionAttributes
\* is props without the transition keys, so the two are equal when the input
\* has no transition key.
C1_NoDirectiveKeys ==
    (pc = "returned" /\ NoClientNoServerKey) =>
        /\ extracted.hydration = Null
        /\ extracted.isPage = FALSE
        /\ extracted.propsWithoutTransitionAttributes =
              SelectSeq(extracted.props, LAMBDA e : e.key \notin TransitionKeys)
        /\ (KeySet(inputProps) \cap TransitionKeys = {} =>
              extracted.props = extracted.propsWithoutTransitionAttributes)

C1_Witness ==
    /\ pc = "returned"
    /\ NoClientNoServerKey
    /\ K(<<"title">>) \in KeySet(extracted.props)
    /\ K(<<"data-astro-transition-scope">>) \in KeySet(extracted.props)

\* C9: after a successful extraction props and
\* propsWithoutTransitionAttributes hold the same entries, except that the
\* two transition keys are missing from propsWithoutTransitionAttributes,
\* which holds no key that props lacks.
C9_TransitionKeysOmitted ==
    pc = "returned" =>
        /\ EntrySet(extracted.propsWithoutTransitionAttributes) =
              {e \in EntrySet(extracted.props) : e.key \notin TransitionKeys}
        /\ KeySet(extracted.propsWithoutTransitionAttributes)
              \subseteq KeySet(extracted.props)

C9_Witness ==
    /\ pc = "returned"
    /\ K(<<"data-astro-transition-persist">>) \in KeySet(extracted.props)
    /\ K(<<"title">>) \in KeySet(extracted.propsWithoutTransitionAttributes)

\* ---- client:params

ParamsKey == K(<<"client", "params">>)

\* The key suffixes that have a case of their own in the switch.
ReservedSuffixes ==
    { <<"component-path">>, <<"component-export">>, <<"component-hydration">>,
      <<"display-name">>, <<"params">> }

\* {directive: <string>, value?: ...} and no other key.
WellFormed(v) ==
    /\ v.t = "object"
    /\ KeySet(v.entries) \subseteq {K(<<"directive">>), K(<<"value">>)}
    /\ \E e \in EntrySet(v.entries) :
          e.key = K(<<"directive">>) /\ e.value.t = "string"

FieldOf(v, name) ==
    IF \E e \in EntrySet(v.entries) : e.key = K(<<name>>)
    THEN (CHOOSE e \in EntrySet(v.entries) : e.key = K(<<name>>)).value
    ELSE Undefined

\* The bag with its client:params entry, at place j, written as the key
\* client:<directive> with the value field as its value.
Rewritten(o, j) ==
    [o EXCEPT ![j] = [key |-> K(<<"client">> \o FieldOf(o[j].value, "directive").s),
                      value |-> FieldOf(o[j].value, "value")]]

\* The bag without its entry at place j.
Removed(o, j) == SubSeq(o, 1, j - 1) \o SubSeq(o, j + 1, Len(o))

Ended == pc \in {"returned", "threw"}

\* C2 as stated: a well-formed client:params entry gives the same outcome
\* (result or failure) as the same bag with that entry written as the key
\* client:<directive> with value <value>, for every directive string.
C2_AsStated ==
    Ended =>
        \A j \in 1..Len(inputProps) :
            (/\ inputProps[j].key = ParamsKey
             /\ WellFormed(inputProps[j].value)
             /\ DistinctKeys(Rewritten(inputProps, j)))
            => Outcome = extractDirectives(Rewritten(inputProps, j), clientDirectives)

\* C2 amended: the equivalence holds for every directive string other than
\* the five suffixes with a case of their own (component-path,
\* component-export, component-hydration, display-name, params): the rewrite
\* falls through to the default case only.  And {directive: "idle"} as the
\* last string-keyed entry, with idle registered, gives directive "idle" and
\* value undefined.
C2_RewriteToDefaultCase ==
    Ended =>
        /\ \A j \in 1..Len(inputProps) :
            (/\ inputProps[j].key = ParamsKey
             /\ WellFormed(inputProps[j].value)
             /\ FieldOf(inputProps[j].value, "directive").s \notin ReservedSuffixes
             /\ DistinctKeys(Rewritten(inputProps, j)))
            => Outcome = extractDirectives(Rewritten(inputProps, j), clientDirectives)
        /\ (/\ pc = "returned"
            /\ Len(Entries) > 0
            /\ Entries[Len(Entries)] =
                  [key |-> ParamsKey,
                   value |-> Obj(<<[key |-> K(<<"directive">>),
                                    value |-> Str(<<"idle">>)]>>)])
            => /\ extracted.hydration # Null
               /\ extracted.hydration.directive = Str(<<"idle">>)
               /\ extracted.hydration.value = Undefined

C2_Witness ==
    /\ pc = "returned"
    /\ \E j \in 1..Len(inputProps) :
          /\ inputProps[j].key = ParamsKey
          /\ WellFormed(inputProps[j].value)
          /\ FieldOf(inputProps[j].value, "value") = Str(<<"q">>)
    /\ extracted.hydration.directive = Str(<<"idle">>)
    /\ extracted.hydration.value = Str(<<"q">>)

\* The result r with an absent hydration record replaced by the empty one.
EmptyHydration ==
    [directive |-> Str(<<"">>), value |-> Str(<<"">>), componentUrl |-> Str(<<"">>),
     componentExport |-> [value |-> Str(<<"">>)]]

WithRecord(r) ==
    IF r.returned /\ r.value.hydration = Null
    THEN [r EXCEPT !.value.hydration = EmptyHydration]
    ELSE r

\* C7 as stated: a nullish client:params entry changes nothing: the outcome
\* is that of the bag without the entry.
C7_AsStated ==
    Ended =>
        \A j \in 1..Len(inputProps) :
            (inputProps[j].key = ParamsKey /\ inputProps[j].value \in {Null, Undefined})
            => Outcome = extractDirectives(Removed(inputProps, j), clientDirectives)

\* C7 amended: a nullish client:params entry gives the outcome of the bag
\* without the entry, except that the hydration record is present (all its
\* fields empty strings) where it would be absent, which is when the bag has
\* no other client: key.
C7_NullishParams ==
    Ended =>
        \A j \in 1..Len(inputProps) :
            (inputProps[j].key = ParamsKey /\ inputProps[j].value \in {Null, Undefined})
            => Outcome =
                 WithRecord(extractDirectives(Removed(inputProps, j), clientDirectives))

C7_Witness ==
    /\ pc = "returned"
    /\ \E j \in 1..Len(inputProps) :
          inputProps[j] = [key |-> ParamsKey, value |-> Null]
    /\ extracted.hydration = EmptyHydration

\* ---- Directive keys

RegistrySet == {clientDirectives[j] : j \in 1..Len(clientDirectives)}

\* The string-keyed entry at place j has been through the loop body.
Processed(j) ==
    \/ pc = "threw" /\ i = j
    \/ pc = "entries" /\ i > j
    \/ pc \in {"symbols", "returned"}

\* The entry the loop body handled last.
LastProcessed == IF pc = "threw" THEN i ELSE IF pc = "entries" THEN i - 1 ELSE Len(Entries)

\* A directly written directive key: client:<suffix>, the suffix not one of
\* the five with a case of their own.
DirectDirective(e) ==
    /\ ClientPrefixed(e.key)
    /\ SubSeq(e.key.name, 2, Len(e.key.name)) \notin ReservedSuffixes

\* Everything after the leading "client:".
Suffix(e) == SubSeq(e.key.name, 2, Len(e.key.name))

\* The entry carries the media directive with an argument that is no string.
CarriesMediaWithoutString(e) ==
    \/ e.key = K(<<"client", "media">>) /\ e.value.t # "string"
    \/ /\ e.key = ParamsKey
       /\ WellFormed(e.value)
       /\ FieldOf(e.value, "directive") = Str(<<"media">>)
       /\ FieldOf(e.value, "value").t # "string"

\* C3 as stated: the media directive with a non-string argument makes
\* extraction fail with MissingMediaQueryDirective, for every registry and whatever
\* the other keys.
C3_AsStated ==
    (Ended /\ \E j \in 1..Len(Entries) : CarriesMediaWithoutString(Entries[j]))
        => pc = "threw" /\ thrown.kind = "MissingMediaQueryDirective"

\* C3 amended: the media directive with a non-string argument makes
\* extraction fail, never return; the failure is that of the first failing
\* key in input order, and the one raised at the media key is
\* MissingMediaQueryDirective when media is registered and UnknownDirective when it
\* is not.
C3_MediaNeedsString ==
    Ended =>
        \A j \in 1..Len(Entries) :
            CarriesMediaWithoutString(Entries[j]) =>
                /\ pc = "threw"
                /\ i <= j
                /\ i = j =>
                     thrown.kind = IF <<"media">> \in RegistrySet
                                   THEN "MissingMediaQueryDirective"
                                   ELSE "UnknownDirective"

C3_Witness ==
    /\ pc = "threw"
    /\ thrown.kind = "MissingMediaQueryDirective"
    /\ i = 2
    /\ Entries[i].key = ParamsKey
    /\ CarriesMediaWithoutString(Entries[i])

\* C5 as stated: a returned hydration record has a registered directive,
\* unless the only client: keys of the input are client:component-path and
\* client:component-export.
C5_AsStated ==
    (/\ pc = "returned"
     /\ extracted.hydration # Null
     /\ ~(\A k \in KeySet(inputProps) :
            ClientPrefixed(k) =>
                k \in {K(<<"client", "component-path">>),
                       K(<<"client", "component-export">>)}))
    => extracted.hydration.directive.s \in RegistrySet

\* C5 amended: a returned hydration record has a registered directive when
\* the input holds a directive key (client:<name> other than the five
\* special keys, or a non-nullish client:params); when its only client: keys
\* are among component-path, component-export, component-hydration,
\* display-name and a nullish params, the directive is the empty string.
C5_DirectiveRegistered ==
    (pc = "returned" /\ extracted.hydration # Null) =>
        IF \E e \in EntrySet(Entries) :
              \/ DirectDirective(e)
              \/ e.key = ParamsKey /\ e.value \notin {Null, Undefined}
        THEN extracted.hydration.directive.s \in RegistrySet
        ELSE extracted.hydration.directive = Str(<<"">>)

C5_Witness ==
    /\ pc = "returned"
    /\ extracted.hydration # Null
    /\ extracted.hydration.directive = Str(<<"load">>)
    /\ extracted.hydration.componentUrl = Str(<<"q">>)

\* C8: a non-nullish client:params value that is not an object with only the
\* keys directive (a string) and value never lets extraction return, and the
\* failure raised at that key is InvalidDirectiveValue; a well-formed value
\* does not fail with InvalidDirectiveValue.
C8_ParamsShape ==
    Ended =>
        \A j \in 1..Len(Entries) :
            (Entries[j].key = ParamsKey /\ Entries[j].value \notin {Null, Undefined}) =>
                IF WellFormed(Entries[j].value)
                THEN ~(pc = "threw" /\ i = j /\ thrown.kind = "InvalidDirectiveValue")
                ELSE /\ pc = "threw"
                     /\ i <= j
                     /\ i = j => thrown.kind = "InvalidDirectiveValue"

C8_Witness ==
    /\ pc = "threw"
    /\ thrown.kind = "InvalidDirectiveValue"
    /\ Entries[i] = [key |-> ParamsKey,
                     value |-> Obj(<<[key |-> K(<<"extra">>), value |-> Str(<<"x">>)]>>)]

\* "client:a, client:b, ..." for the first n registry names, built from the
\* left.
RECURSIVE Listing(_, _)
Listing(reg, n) ==
    IF n = 0 THEN <<"">>
    ELSE IF n = 1 THEN <<"client">> \o reg[1]
    ELSE LET before == Listing(reg, n - 1)
         IN  SubSeq(before, 1, Len(before) - 1)
                \o <<before[Len(before)] \o ", client">> \o reg[n]

\* The key the default case sees for entry e: the key itself, or the one a
\* well-formed client:params is rewritten to.
EffectiveSuffix(e) ==
    IF e.key = ParamsKey THEN FieldOf(e.value, "directive").s ELSE Suffix(e)

ReachesDefaultCase(e) ==
    \/ DirectDirective(e)
    \/ e.key = ParamsKey /\ WellFormed(e.value)

\* C4: a directive key client:<name>, written directly or synthesized from
\* client:params, whose name is not registered makes extraction fail with
\* UnknownDirective, the message listing every registered name as
\* client:<name> in registry order, joined by ", ".
C4_UnknownDirective ==
    \A j \in 1..Len(Entries) :
        (/\ Processed(j)
         /\ ReachesDefaultCase(Entries[j])
         /\ EffectiveSuffix(Entries[j]) \notin RegistrySet)
        => /\ pc = "threw"
           /\ i = j
           /\ thrown.kind = "UnknownDirective"
           /\ thrown.methods = Listing(clientDirectives, Len(clientDirectives))
           /\ (clientDirectives = << <<"load">>, <<"idle">> >> =>
                 thrown.methods = <<"client", "load, client", "idle">>)

\* C6: for a directly written directive key the record's directive is the
\* whole suffix after "client:", its value the key's value, and the registry
\* test is made on that whole suffix.
C6_WholeSuffix ==
    \A j \in 1..Len(Entries) :
        (pc \in {"entries", "threw"} /\ j = LastProcessed /\ DirectDirective(Entries[j]))
        => /\ extracted.hydration.directive = Str(Suffix(Entries[j]))
           /\ extracted.hydration.value = Entries[j].value
           /\ (pc = "threw" /\ thrown.kind = "UnknownDirective")
                 <=> Suffix(Entries[j]) \notin RegistrySet

\* ------------------------------------------------------------------------
\* Properties of generateHydrateScript

NoClientEntrypoint == ~Truthy(scriptOptions.renderer.clientEntrypoint)

\* The caller-supplied extra attributes, none when attrs is undefined.
ExtraAttrs == IF scriptOptions.attrs = Undefined THEN <<>> ELSE scriptOptions.attrs.entries

AlwaysPresent ==
    {K(<<"ssr">>), K(<<"client">>), K(<<"uid">>), K(<<"component-url">>), K(<<"opts">>)}

\* C10 as stated: built for a renderer with no client entry point, the
\* descriptor has no props and no renderer-url attribute and has ssr, client,
\* uid, component-url and opts, whatever the caller-supplied attributes.
C10_AsStated ==
    (pc = "built" /\ NoClientEntrypoint) =>
        /\ K(<<"props">>) \notin KeySet(island.props)
        /\ K(<<"renderer-url">>) \notin KeySet(island.props)
        /\ AlwaysPresent \subseteq KeySet(island.props)

\* C10 amended: built for a renderer with no client entry point, the
\* descriptor has a props (or renderer-url) attribute only when the
\* caller-supplied extra attributes hold a key of that name, and then with
\* the caller's escaped value; it always has ssr, client, uid, component-url
\* and opts.
C10_NoClientEntrypoint ==
    (pc = "built" /\ NoClientEntrypoint) =>
        /\ \A name \in {K(<<"props">>), K(<<"renderer-url">>)} :
              /\ name \in KeySet(island.props) <=> name \in KeySet(ExtraAttrs)
              /\ name \in KeySet(ExtraAttrs) =>
                    \E e \in EntrySet(ExtraAttrs) :
                        /\ e.key = name
                        /\ [key |-> name, value |-> escapeHTML(e.value)]
                              \in EntrySet(island.props)
        /\ AlwaysPresent \subseteq KeySet(island.props)

C10_Witness ==
    /\ pc = "built"
    /\ NoClientEntrypoint
    /\ K(<<"class">>) \in KeySet(ExtraAttrs)
    /\ K(<<"props">>) \notin KeySet(island.props)
    /\ K(<<"opts">>) \in KeySet(island.props)
    /\ scriptOptions.props # <<>>

\* ---- Attribute order

KeysOf(o) == [j \in 1..Len(o) |-> o[j].key]

\* A sequence of keys with every repetition of a key dropped.
RECURSIVE FirstOccurrences(_)
FirstOccurrences(ks) ==
    IF Len(ks) = 0 THEN <<>>
    ELSE LET front == FirstOccurrences(SubSeq(ks, 1, Len(ks) - 1))
             last == ks[Len(ks)]
         IN  IF \E j \in 1..Len(front) : front[j] = last
             THEN front ELSE Append(front, last)

\* What the last result.resolve() call resolved to.
LastResolved == resolveLog[Len(resolveLog)].arg

PropIsTruthy(name) ==
    \E e \in EntrySet(scriptOptions.props) :
        e.key = K(<<name>>) /\ e.value \notin {Undefined, Null, Str(<<"">>)}

\* The names in construction order.
ConstructionOrder ==
    <<K(<<"uid">>)>>
    \o KeysOf(ExtraAttrs)
    \o <<K(<<"component-url">>)>>
    \o (IF NoClientEntrypoint THEN <<>>
        ELSE <<K(<<"component-export">>), K(<<"renderer-url">>), K(<<"props">>)>>)
    \o <<K(<<"ssr">>), K(<<"client">>)>>
    \o (IF LastResolved = Str(<<"">>) THEN <<>> ELSE <<K(<<"before-hydration-url">>)>>)
    \o <<K(<<"opts">>)>>
    \o (IF PropIsTruthy("data-astro-transition-scope")
        THEN <<K(<<"data-astro-transition-scope">>)>> ELSE <<>>)
    \o (IF PropIsTruthy("data-astro-transition-persist")
        THEN <<K(<<"data-astro-transition-persist">>)>> ELSE <<>>)

\* C11 as stated: the attributes of a built descriptor are in construction
\* order (uid, the extra attributes, component-url, ...), for every set of
\* caller-supplied extra attributes.
C11_AsStated ==
    pc = "built" => KeysOf(island.props) = ConstructionOrder

\* C11 amended: the attributes of a built descriptor are in the order of the
\* first write of each name in the construction order; an extra attribute
\* named like one the builder writes (uid, component-url, props, ...) keeps
\* the place of the first write and the later write only replaces its value.
\* With no such name among the extra attributes the order is the
\* construction order.
C11_FirstWriteOrder ==
    pc = "built" =>
        /\ KeysOf(island.props) = FirstOccurrences(ConstructionOrder)
        /\ (KeySet(ExtraAttrs) \cap
                (AlwaysPresent \cup
                 {K(<<"component-export">>), K(<<"renderer-url">>), K(<<"props">>),
                  K(<<"before-hydration-url">>)} \cup TransitionKeys) = {}
            => KeysOf(island.props) = ConstructionOrder)

C11_Witness ==
    /\ pc = "built"
    /\ ~NoClientEntrypoint
    /\ KeysOf(ExtraAttrs) = <<K(<<"class">>), K(<<"props">>)>>
    /\ LastResolved # Str(<<"">>)
    /\ PropIsTruthy("data-astro-transition-persist")

\* ---- result.resolve() calls

ExportIsEmpty == ~Truthy(metadata.componentExport.value)

BuildRuns == pc \in {"build", "awaitComponentUrl", "awaitRendererUrl",
                     "awaitBeforeHydration", "built", "rejected"}

\* C12: with an empty component export name the build fails with
\* NoMatchingImport (MissingComponentExport) with no result.resolve() call
\* made and no descriptor.
C12_NoExportNoResolve ==
    (BuildRuns /\ ExportIsEmpty) =>
        /\ pc \in {"build", "rejected"}
        /\ resolveLog = <<>>
        /\ island = Null
        /\ pc = "rejected" => thrown.kind = "NoMatchingImport"

C12_Witness ==
    /\ pc = "rejected"
    /\ ExportIsEmpty
    /\ thrown.kind = "NoMatchingImport"
    /\ ExtraAttrs # <<>>

\* The paths asked for, in the order of the calls.
CalledPaths ==
    LET calls == SelectSeq(resolveLog, LAMBDA ev : ev.op = "call")
    IN  [j \in 1..Len(calls) |-> calls[j].arg]

\* C13: the result.resolve() calls of a build are made one after the other,
\* each settled before the next is made: the component URL, the renderer
\* entry URL (only with a client entry point), then
\* astro:scripts/before-hydration.js; two calls without a client entry point
\* and three with one in a build that returns; a rejection ends the build
\* with no descriptor and no later call.
C13_SequentialResolves ==
    BuildRuns =>
        /\ \A j \in 1..Len(resolveLog) :
              /\ (j % 2 = 1) <=> resolveLog[j].op = "call"
              /\ resolveLog[j].op = "rejected" =>
                    /\ j = Len(resolveLog)
                    /\ pc = "rejected"
                    /\ thrown.kind = "ResolveRejected"
        /\ pc = "built" =>
              /\ CalledPaths =
                    <<Str(<<"/src/My Island.jsx">>)>>
                    \o (IF NoClientEntrypoint THEN <<>>
                        ELSE <<scriptOptions.renderer.clientEntrypoint>>)
                    \o <<Str(<<"astro", "scripts/before-hydration.js">>)>>
              /\ Len(CalledPaths) = IF NoClientEntrypoint THEN 2 ELSE 3
              /\ Len(resolveLog) = 2 * Len(CalledPaths)
        /\ pc = "rejected" => ~(K(<<"opts">>) \in KeySet(IF island = Null THEN <<>> ELSE island.props))

C13_Witness ==
    /\ pc = "rejected"
    /\ Len(resolveLog) = 4
    /\ resolveLog[4].op = "rejected"
    /\ ~NoClientEntrypoint

\* C14 as stated: when astro:scripts/before-hydration.js resolves to the
\* empty string the descriptor has no before-hydration-url attribute; when it
\* resolves to a non-empty string the attribute is that string; whatever the
\* caller-supplied extra attributes.
C14_AsStated ==
    pc = "built" =>
        IF LastResolved = Str(<<"">>)
        THEN K(<<"before-hydration-url">>) \notin KeySet(island.props)
        ELSE [key |-> K(<<"before-hydration-url">>), value |-> LastResolved]
                \in EntrySet(island.props)

\* C14 amended: when astro:scripts/before-hydration.js resolves to the empty
\* string the builder sets no before-hydration-url attribute: the descriptor
\* has one only when the caller-supplied extra attributes hold that name,
\* with the caller's escaped value. When it resolves to a non-empty string
\* the attribute is that string.
C14_BeforeHydrationUrl ==
    pc = "built" =>
        IF LastResolved = Str(<<"">>)
        THEN /\ K(<<"before-hydration-url">>) \in KeySet(island.props)
                  <=> K(<<"before-hydration-url">>) \in KeySet(ExtraAttrs)
             /\ \A e \in EntrySet(ExtraAttrs) :
                  e.key = K(<<"before-hydration-url">>) =>
                      [key |-> e.key, value |-> escapeHTML(e.value)]
                          \in EntrySet(island.props)
        ELSE [key |-> K(<<"before-hydration-url">>), value |-> LastResolved]
                \in EntrySet(island.props)

C14_Witness ==
    /\ pc = "built"
    /\ LastResolved = Str(<<"/_astro/before-hydration.js">>)
    /\ K(<<"before-hydration-url">>) \in KeySet(ExtraAttrs)
    /\ [key |-> K(<<"before-hydration-url">>),
        value |-> Str(<<"/_astro/before-hydration.js">>)] \in EntrySet(island.props)

\* ---- server: keys, symbols and what reaches props

ServerRoot == K(<<"server", "root">>)

\* C15: an input that holds server:root gives isPage true, whatever the other
\* keys and wherever server:root stands among them.
C15_ServerRootIsPage ==
    /\ (pc = "returned" /\ ServerRoot \in KeySet(inputProps)) => extracted.isPage
    /\ \A j \in 1..Len(Entries) :
          (Entries[j].key = ServerRoot /\ Processed(j)) => extracted.isPage

C15_Witness ==
    /\ pc = "returned"
    /\ Len(Entries) = 2
    /\ Entries[1].key = ServerRoot
    /\ Entries[2].key = K(<<"server", "defer">>)
    /\ extracted.isPage

\* C16: every symbol-keyed entry of the input is, with its value, in both
\* props and propsWithoutTransitionAttributes of a result that is returned.
C16_SymbolsInBothBags ==
    pc = "returned" =>
        \A e \in EntrySet(inputProps) :
            e.key.sym =>
                /\ e \in EntrySet(extracted.props)
                /\ e \in EntrySet(extracted.propsWithoutTransitionAttributes)

C16_Witness ==
    /\ pc = "returned"
    /\ \E e \in EntrySet(inputProps) : e.key.sym /\ e.value = Num(7)
    /\ \E e \in EntrySet(inputProps) : ClientPrefixed(e.key)
    /\ Len(extracted.props) = 1

\* C17: server:root sets isPage and is in neither props nor
\* propsWithoutTransitionAttributes of the result; the other server: keys are
\* in props.
C17_ServerRootNotCopied ==
    pc = "returned" =>
        /\ ServerRoot \in KeySet(inputProps) => extracted.isPage
        /\ ServerRoot \notin KeySet(extracted.props)
        /\ ServerRoot \notin KeySet(extracted.propsWithoutTransitionAttributes)
        /\ \A e \in EntrySet(inputProps) :
              (ServerPrefixed(e.key) /\ e.key # ServerRoot) =>
                  e \in EntrySet(extracted.props)

\* C18: a returned result has no client: key in props or
\* propsWithoutTransitionAttributes, and has in props, with its input value,
\* every string-keyed entry that starts with neither client: nor server: and
\* every server: entry other than server:root.
C18_PropsContent ==
    pc = "returned" =>
        /\ \A k \in KeySet(extracted.props)
                    \cup KeySet(extracted.propsWithoutTransitionAttributes) :
              ~ClientPrefixed(k)
        /\ \A e \in EntrySet(Entries) :
              (~ClientPrefixed(e.key) /\ e.key # ServerRoot) =>
                  e \in EntrySet(extracted.props)

C18_Witness ==
    /\ pc = "returned"
    /\ K(<<"client", "load">>) \in KeySet(inputProps)
    /\ [key |-> K(<<"server", "defer">>), value |-> Str(<<"q">>)]
          \in EntrySet(extracted.props)

\* ---- several directive keys in one input

\* The places of the canonical directive keys: client:<name> written
\* directly, or a well-formed client:params.
DirectiveKeyPlaces == {j \in 1..Len(Entries) : ReachesDefaultCase(Entries[j])}

LastDirectiveKey ==
    Entries[CHOOSE j \in DirectiveKeyPlaces : \A l \in DirectiveKeyPlaces : l <= j]

\* The argument a directive key carries.
DirectiveValue(e) ==
    IF e.key = ParamsKey THEN FieldOf(e.value, "value") ELSE e.value

\* The value the input gives the key, or the empty string of a fresh record.
ValueOrEmpty(key) ==
    IF HasKey(Entries, key) THEN Get(Entries, key) ELSE Str(<<"">>)

C20_TransitionAttributes ==
    pc = "built" =>
        /\ \A name \in TransitionKeys :
              IF Truthy(Get(scriptOptions.props, name))
              THEN [key |-> name, value |-> Get(scriptOptions.props, name)]
                      \in EntrySet(island.props)
              ELSE /\ name \in KeySet(island.props) <=> name \in KeySet(ExtraAttrs)
                   /\ \A e \in EntrySet(ExtraAttrs) :
                         e.key = name =>
                             [key |-> name, value |-> escapeHTML(e.value)]
                                 \in EntrySet(island.props)
        /\ [key |-> K(<<"client">>), value |-> metadata.hydrate]
              \in EntrySet(island.props)
        /\ [key |-> K(<<"ssr">>), value |-> Str(<<"">>)] \in EntrySet(island.props)

C20_Witness ==
    /\ pc = "built"
    /\ Get(scriptOptions.props, K(<<"data-astro-transition-scope">>)) = Str(<<"<b>">>)
    /\ [key |-> K(<<"data-astro-transition-scope">>), value |-> Str(<<"<b>">>)]
          \in EntrySet(island.props)
    /\ K(<<"data-astro-transition-persist">>) \notin KeySet(island.props)
    /\ KeySet(ExtraAttrs) =
          {K(<<"client">>), K(<<"data-astro-transition-scope">>)}

====
